---- MODULE Spec2Model ----
(***************************************************************************)
(* Model of ext/http/request_properties.rs: the default                    *)
(* HttpPropertyExtractor (listen, connection and request properties), the  *)
(* fallback host of a listener address, the request host resolver, and     *)
(* the two resource acquisitions.                                          *)
(*                                                                         *)
(* Text.  A Rust str/String is modelled as what it is, the sequence of its *)
(* UTF-8 bytes (numbers 0..255); a char is its code point.  The HTTP       *)
(* header value is a sequence of raw bytes.  An Option is a sequence of    *)
(* length 0 (None) or 1 (Some(x)).                                         *)
(***************************************************************************)
EXTENDS Integers, Sequences, FiniteSets, TLC

(* ------------------------------ Option -------------------------------- *)

None == << >>

Some(x) == << x >>

IsSome(o) == Len(o) = 1

Unwrap(o) == o[1]

\* Option<u16>::unwrap_or_default (line 147): the value, or u16's default 0.
unwrap_or_default(o) == IF IsSome(o) THEN Unwrap(o) ELSE 0

(* --------------------------- text helpers ----------------------------- *)

\* One decimal or hexadecimal digit as its ASCII byte ('0'..'9', then the
\* letters from `ten`: 97 for 'a', 65 for 'A').
Digit(d, ten) == IF d < 10 THEN 48 + d ELSE ten + (d - 10)

RECURSIVE Radix(_, _, _)
\* n written in base `base` without leading zeros ("{}" or "{:x}").
Radix(n, base, ten) ==
  IF n < base THEN << Digit(n, ten) >>
  ELSE Radix(n \div base, base, ten) \o << Digit(n % base, ten) >>

\* u8/u16 Display: decimal.
DecStr(n) == Radix(n, 10, 97)

\* u16 LowerHex: a segment of an IPv6 address.
HexStr(n) == Radix(n, 16, 97)

\* A variant of char_from that keeps only the low seven bits of the byte.
char_from_7bit(b) == b % 128

\* char::from(u8) (line 242): the char whose code point is the byte's value.
char_from(b) == b

\* The UTF-8 encoding of one char (code points below U+0800, which covers
\* every char char_from can produce): what String's collect pushes.
Utf8(c) == IF c < 128 THEN << c >> ELSE << 192 + (c \div 64), 128 + (c % 64) >>

RECURSIVE collect_String(_)
\* .collect::<String>() (line 243) of a sequence of chars.
collect_String(cs) ==
  IF cs = << >> THEN << >> ELSE Utf8(Head(cs)) \o collect_String(Tail(cs))

\* A UTF-8 continuation byte within lo..hi at index i of bs.
Cont(bs, i, lo, hi) == Len(bs) >= i /\ bs[i] >= lo /\ bs[i] <= hi

RECURSIVE IsUtf8(_)
\* Whether a byte sequence is well-formed UTF-8 (what Path::to_str, line 184,
\* tests): one- to four-byte forms, no overlong form, no surrogate, nothing
\* above U+10FFFF.
IsUtf8(bs) ==
  IF bs = << >> THEN TRUE
  ELSE LET b == bs[1]
           second == CASE b = 224 -> << 160, 191 >>
                       [] b = 237 -> << 128, 159 >>
                       [] b = 240 -> << 144, 191 >>
                       [] b = 244 -> << 128, 143 >>
                       [] OTHER -> << 128, 191 >>
           width == CASE b < 128 -> 1
                      [] b >= 194 /\ b <= 223 -> 2
                      [] b >= 224 /\ b <= 239 -> 3
                      [] b >= 240 /\ b <= 244 -> 4
                      [] OTHER -> 0
       IN /\ width > 0
          /\ width >= 2 => Cont(bs, 2, second[1], second[2])
          /\ width >= 3 => Cont(bs, 3, 128, 191)
          /\ width >= 4 => Cont(bs, 4, 128, 191)
          /\ IsUtf8(SubSeq(bs, width + 1, Len(bs)))

\* Index of the first occurrence of byte b in s, 0 when absent.
Find(s, b) ==
  IF \E i \in 1..Len(s) : s[i] = b
  THEN CHOOSE i \in 1..Len(s) : s[i] = b /\ \A j \in 1..(i - 1) : s[j] # b
  ELSE 0

\* Index of the last occurrence of byte b in s, 0 when absent.
RFind(s, b) ==
  IF \E i \in 1..Len(s) : s[i] = b
  THEN CHOOSE i \in 1..Len(s) : s[i] = b /\ \A j \in (i + 1)..Len(s) : s[j] # b
  ELSE 0

(* -------------------------- socket addresses --------------------------- *)

\* NetworkStreamType: Tcp (plain), Tls (encrypted), Unix (path based).
NetworkStreamType == {"Tcp", "Tls", "Unix"}

V4(a, b, c, d) == [v |-> 4, o |-> << a, b, c, d >>]

V6(segs) == [v |-> 6, s |-> segs]

\* IpAddr::is_loopback: 127.0.0.0/8, or ::1.
is_loopback(ip) ==
  IF ip.v = 4 THEN ip.o[1] = 127 ELSE ip.s = << 0, 0, 0, 0, 0, 0, 0, 1 >>

\* IpAddr::is_unspecified: 0.0.0.0, or ::.
is_unspecified(ip) ==
  IF ip.v = 4 THEN ip.o = << 0, 0, 0, 0 >> ELSE ip.s = << 0, 0, 0, 0, 0, 0, 0, 0 >>

\* Ipv4Addr Display: dotted decimal.
Ipv4ToString(o) ==
  DecStr(o[1]) \o << 46 >> \o DecStr(o[2]) \o << 46 >> \o DecStr(o[3])
    \o << 46 >> \o DecStr(o[4])

RECURSIVE ZeroRun(_, _)
\* Length of the run of zero segments that starts at index i.
ZeroRun(segs, i) ==
  IF i > Len(segs) \/ segs[i] # 0 THEN 0 ELSE 1 + ZeroRun(segs, i + 1)

RECURSIVE HexGroups(_)
\* Segments in lower-case hex joined by ':'.
HexGroups(segs) ==
  IF segs = << >> THEN << >>
  ELSE IF Len(segs) = 1 THEN HexStr(segs[1])
  ELSE HexStr(segs[1]) \o << 58 >> \o HexGroups(Tail(segs))

\* Ipv6Addr Display: "::ffff:a.b.c.d" for an IPv4-mapped address, else the
\* segments with the first longest run of two or more zero segments
\* written "::" (so "::" and "::1" for the unspecified and the loopback
\* address; no IPv4-compatible address is among the inputs).
Ipv6ToString(segs) ==
  IF SubSeq(segs, 1, 5) = << 0, 0, 0, 0, 0 >> /\ segs[6] = 65535
  THEN << 58, 58, 102, 102, 102, 102, 58 >>
         \o Ipv4ToString(<< segs[7] \div 256, segs[7] % 256,
                            segs[8] \div 256, segs[8] % 256 >>)
  ELSE LET run == [i \in 1..8 |-> ZeroRun(segs, i)]
           best == CHOOSE n \in { run[i] : i \in 1..8 } : \A i \in 1..8 : run[i] <= n
           start == CHOOSE i \in 1..8 :
                      run[i] = best /\ \A j \in 1..(i - 1) : run[j] < best
       IN IF best > 1
          THEN HexGroups(SubSeq(segs, 1, start - 1)) \o << 58, 58 >>
                 \o HexGroups(SubSeq(segs, start + best, 8))
          ELSE HexGroups(segs)

\* IpAddr::to_string (lines 123, 169).
IpToString(ip) == IF ip.v = 4 THEN Ipv4ToString(ip.o) ELSE Ipv6ToString(ip.s)

\* SocketAddr::to_string (line 174): "ip:port" for V4; "[ip]:port" for V6,
\* "[ip%scope]:port" when the scope id is not zero.
SocketAddrToString(a) ==
  IF a.ip.v = 4 THEN IpToString(a.ip) \o << 58 >> \o DecStr(a.port)
  ELSE << 91 >> \o IpToString(a.ip)
         \o (IF a.scope_id = 0 THEN << >> ELSE << 37 >> \o DecStr(a.scope_id))
         \o << 93, 58 >> \o DecStr(a.port)

\* NetworkStreamAddress::Ip(SocketAddr).
IpAddress(ip, port, scope) ==
  [kind |-> "Ip", ip |-> ip, port |-> port, scope_id |-> scope]

\* NetworkStreamAddress::Unix(addr): as_pathname() is the bytes of the path,
\* None for an unnamed or abstract socket.
UnixAddress(pathname) == [kind |-> "Unix", pathname |-> pathname]

(* ------------------------- parsed request input ------------------------ *)

\* Uri: authority() is the raw authority text of an absolute-form request
\* target, None for an origin-form target.
Uri(authority) == [authority |-> authority]

\* Authority::as_str (line 230): the authority text, verbatim.
as_str(auth) == auth

\* Authority::host (lines 219, 224): the text after the last '@'; a
\* bracketed IPv6 literal up to its ']', otherwise up to the first ':'.
host(auth) ==
  LET at == RFind(auth, 64)
      host_port == SubSeq(auth, at + 1, Len(auth))
  IN IF host_port[1] = 91
     THEN SubSeq(host_port, 1, Find(host_port, 93))
     ELSE IF Find(host_port, 58) = 0 THEN host_port
          ELSE SubSeq(host_port, 1, Find(host_port, 58) - 1)

\* The header name hyper1::header::HOST (line 13).
HOST == "host"

\* HeaderMap::get (line 234): the first value stored under the name.
get(headers, name) ==
  IF \E i \in 1..Len(headers) : headers[i].name = name
  THEN Some(headers[CHOOSE i \in 1..Len(headers) :
                      /\ headers[i].name = name
                      /\ \A j \in 1..(i - 1) : headers[j].name # name].value)
  ELSE None

\* HeaderValue::to_str (line 235): Ok(the same bytes as a str) when every
\* byte is visible ASCII or a tab, Err otherwise (None here).
to_str(value) ==
  IF \A i \in 1..Len(value) : (value[i] >= 32 /\ value[i] < 127) \/ value[i] = 9
  THEN Some(value)
  ELSE None

(* --------------------------- the pure functions ------------------------ *)

\* percent_encode(bytes, NON_ALPHANUMERIC) (lines 181-189): every byte that
\* is not an ASCII letter or digit becomes '%' and two upper-case hex digits.
percent_encode_byte(b) ==
  IF (b >= 48 /\ b <= 57) \/ (b >= 65 /\ b <= 90) \/ (b >= 97 /\ b <= 122)
  THEN << b >>
  ELSE << 37, Digit(b \div 16, 65), Digit(b % 16, 65) >>

RECURSIVE percent_encode(_)
percent_encode(bs) ==
  IF bs = << >> THEN << >>
  ELSE percent_encode_byte(Head(bs)) \o percent_encode(Tail(bs))

\* unix.as_pathname().and_then(|x| x.to_str()).unwrap_or_default()
\* (lines 182-185): the path when it is UTF-8 text, else the empty string.
unix_path_text(addr) ==
  IF IsSome(addr.pathname) /\ IsUtf8(Unwrap(addr.pathname))
  THEN Unwrap(addr.pathname)
  ELSE << >>

\* A variant of req_host_from_addr that takes port 80 as the conventional
\* port of both transports.
req_host_from_addr_80(stream_type, addr) ==
  IF addr.kind = "Ip"
  THEN IF (stream_type = "Tls" /\ addr.port = 80)
            \/ (stream_type = "Tcp" /\ addr.port = 80)
       THEN IF is_loopback(addr.ip) \/ is_unspecified(addr.ip)
            THEN << 108, 111, 99, 97, 108, 104, 111, 115, 116 >>
            ELSE IpToString(addr.ip)
       ELSE IF is_loopback(addr.ip) \/ is_unspecified(addr.ip)
            THEN << 108, 111, 99, 97, 108, 104, 111, 115, 116, 58 >>
                   \o DecStr(addr.port)
            ELSE SocketAddrToString(addr)
  ELSE percent_encode(unix_path_text(addr))

\* req_host_from_addr (lines 157-191).
req_host_from_addr(stream_type, addr) ==
  IF addr.kind = "Ip"
  THEN IF (stream_type = "Tls" /\ addr.port = 443)
            \/ (stream_type = "Tcp" /\ addr.port = 80)
       THEN IF is_loopback(addr.ip) \/ is_unspecified(addr.ip)
            THEN << 108, 111, 99, 97, 108, 104, 111, 115, 116 >>   \* "localhost"
            ELSE IpToString(addr.ip)
       ELSE IF is_loopback(addr.ip) \/ is_unspecified(addr.ip)
            THEN << 108, 111, 99, 97, 108, 104, 111, 115, 116, 58 >>
                   \o DecStr(addr.port)                       \* "localhost:{}"
            ELSE SocketAddrToString(addr)
  ELSE percent_encode(unix_path_text(addr))

\* req_scheme_from_stream_type (lines 193-200).
req_scheme_from_stream_type(stream_type) ==
  CASE stream_type = "Tcp" -> << 104, 116, 116, 112, 58, 47, 47 >>       \* "http://"
    [] stream_type = "Tls" -> << 104, 116, 116, 112, 115, 58, 47, 47 >>  \* "https://"
    [] stream_type = "Unix" ->
         << 104, 116, 116, 112, 43, 117, 110, 105, 120, 58, 47, 47 >>    \* "http+unix://"

\* The Host header arm of req_host (lines 234-246): the value as text, or
\* each byte turned into a char and collected into a String.
req_host_from_header(value) ==
  IF IsSome(to_str(value)) THEN Unwrap(to_str(value))
  ELSE collect_String([i \in 1..Len(value) |-> char_from(value[i])])

\* A variant of req_host that looks at the Host header before the URI.
req_host_header_first(uri, headers, addr_type, port) ==
  IF addr_type = "Unix" THEN None
  ELSE IF IsSome(get(headers, HOST))
  THEN Some(req_host_from_header(Unwrap(get(headers, HOST))))
  ELSE IF IsSome(uri.authority)
  THEN LET auth == Unwrap(uri.authority)
       IN IF (addr_type = "Tcp" /\ port = 80) \/ (addr_type = "Tls" /\ port = 443)
          THEN Some(host(auth))
          ELSE Some(as_str(auth))
  ELSE None

\* A variant of req_host without the early return for Unix sockets.
req_host_no_unix_return(uri, headers, addr_type, port) ==
  IF IsSome(uri.authority)
  THEN LET auth == Unwrap(uri.authority)
       IN IF (addr_type = "Tcp" /\ port = 80) \/ (addr_type = "Tls" /\ port = 443)
          THEN Some(host(auth))
          ELSE Some(as_str(auth))
  ELSE IF IsSome(get(headers, HOST))
  THEN Some(req_host_from_header(Unwrap(get(headers, HOST))))
  ELSE None

\* req_host (lines 202-249).
req_host(uri, headers, addr_type, port) ==
  IF addr_type = "Unix" THEN None
  ELSE IF IsSome(uri.authority)
  THEN LET auth == Unwrap(uri.authority)
       IN IF (addr_type = "Tcp" /\ port = 80) \/ (addr_type = "Tls" /\ port = 443)
          THEN Some(host(auth))
          ELSE Some(as_str(auth))
  ELSE IF IsSome(get(headers, HOST))
  THEN Some(req_host_from_header(Unwrap(get(headers, HOST))))
  ELSE None

\* A variant of listen_properties that reports port 0 for a path address.
listen_properties_port0(stream_type, local_address) ==
  [ scheme |-> req_scheme_from_stream_type(stream_type),
    fallback_host |-> req_host_from_addr(stream_type, local_address),
    local_port |-> IF local_address.kind = "Ip" THEN Some(local_address.port) ELSE Some(0),
    stream_type |-> stream_type ]

\* DefaultHttpPropertyExtractor::listen_properties (lines 93-111).
listen_properties(stream_type, local_address) ==
  [ scheme |-> req_scheme_from_stream_type(stream_type),
    fallback_host |-> req_host_from_addr(stream_type, local_address),
    local_port |-> IF local_address.kind = "Ip" THEN Some(local_address.port) ELSE None,
    stream_type |-> stream_type ]

\* A variant of connection_properties that takes the local port from the peer.
connection_properties_peer_port(listen, peer_address) ==
  [ stream_type |-> listen.stream_type,
    peer_address |-> IF peer_address.kind = "Ip" THEN IpToString(peer_address.ip)
                     ELSE << 117, 110, 105, 120 >>,
    peer_port |-> IF peer_address.kind = "Ip" THEN Some(peer_address.port) ELSE None,
    local_port |-> IF peer_address.kind = "Ip" THEN Some(peer_address.port) ELSE None ]

\* A variant of connection_properties that names the peer the way the
\* listener's fallback host is named.
connection_properties_rewriting(listen, peer_address) ==
  [ stream_type |-> listen.stream_type,
    peer_address |-> IF peer_address.kind = "Ip"
                     THEN req_host_from_addr(listen.stream_type, peer_address)
                     ELSE << 117, 110, 105, 120 >>,
    peer_port |-> IF peer_address.kind = "Ip" THEN Some(peer_address.port) ELSE None,
    local_port |-> listen.local_port ]

\* DefaultHttpPropertyExtractor::connection_properties (lines 113-136).
connection_properties(listen, peer_address) ==
  [ stream_type |-> listen.stream_type,
    peer_address |-> IF peer_address.kind = "Ip" THEN IpToString(peer_address.ip)
                     ELSE << 117, 110, 105, 120 >>,                     \* "unix"
    peer_port |-> IF peer_address.kind = "Ip" THEN Some(peer_address.port) ELSE None,
    local_port |-> listen.local_port ]

\* The arguments request_properties hands to req_host besides the request's
\* own uri and headers (lines 146-147).
req_host_call(connection) ==
  [ addr_type |-> connection.stream_type,
    port |-> unwrap_or_default(connection.local_port) ]

\* DefaultHttpPropertyExtractor::request_properties (lines 138-152).
request_properties(connection, uri, headers) ==
  [ authority |-> req_host(uri, headers, req_host_call(connection).addr_type,
                           req_host_call(connection).port) ]

(* ----------------------------- the resource table ---------------------- *)

\* What a resource-table entry can be: a network stream, a network stream
\* listener, or a resource of another kind (a file, say).
ResourceKind == {"stream", "listener", "other"}

\* deno_net::raw::take_network_stream_resource (called at line 80): removes
\* the entry and returns it when rid names a network stream; an error, and
\* the table as it was, when rid is absent or of another kind.
take_network_stream_resource(table, rid) ==
  IF rid \in DOMAIN table /\ table[rid] = "stream"
  THEN [ result |-> [ok |-> TRUE, handle |-> [rid |-> rid, kind |-> "stream"]],
         table |-> [r \in (DOMAIN table) \ {rid} |-> table[r]] ]
  ELSE [ result |-> [ok |-> FALSE, error |-> "NotFound"], table |-> table ]

\* deno_net::raw::take_network_stream_listener_resource (called at line 87).
take_network_stream_listener_resource(table, rid) ==
  IF rid \in DOMAIN table /\ table[rid] = "listener"
  THEN [ result |-> [ok |-> TRUE, handle |-> [rid |-> rid, kind |-> "listener"]],
         table |-> [r \in (DOMAIN table) \ {rid} |-> table[r]] ]
  ELSE [ result |-> [ok |-> FALSE, error |-> "NotFound"], table |-> table ]

(* --------------------------------- bounds ------------------------------ *)

\* Resource identifiers 1..MaxRid.
MaxRid == 3

\* Tasks that each make one acquisition.
NumTasks == 2

\* Longest generated Host header value (the named samples are longer).
MaxHostLen == 2

(* --------------------------------- inputs ------------------------------ *)

Ports == {80, 443, 8443}

Ips ==
  { V4(127, 0, 0, 1), V4(0, 0, 0, 0), V4(203, 0, 113, 5),
    V6(<< 0, 0, 0, 0, 0, 0, 0, 1 >>),               \* ::1
    V6(<< 0, 0, 0, 0, 0, 0, 0, 0 >>),               \* ::
    V6(<< 8193, 3512, 0, 0, 0, 0, 0, 1 >>),         \* 2001:db8::1
    V6(<< 0, 0, 0, 0, 0, 65535, 32512, 1 >>) }      \* ::ffff:127.0.0.1

\* fe80::1 with scope id 3.
LinkLocal == V6(<< 65152, 0, 0, 0, 0, 0, 0, 1 >>)

UnixPaths ==
  { None,                                             \* unnamed socket
    Some(<< 47, 116, 109, 112, 47, 115, 111, 99, 107 >>),   \* /tmp/sock
    Some(<< 47, 195, 169 >>),                         \* "/" and U+00E9
    Some(<< 47, 226, 130, 172 >>),                    \* "/" and U+20AC
    Some(<< 240, 159, 152, 128 >>),                   \* U+1F600
    Some(<< 47, 237, 160, 128 >>),                    \* a surrogate: not UTF-8
    Some(<< 47, 255 >>) }                             \* not UTF-8

Addresses ==
  { IpAddress(ip, port, 0) : ip \in Ips, port \in Ports }
    \cup { IpAddress(LinkLocal, port, 3) : port \in Ports }
    \cup { UnixAddress(p) : p \in UnixPaths }

Authorities ==
  { << 101, 120, 97, 109, 112, 108, 101, 46, 99, 111, 109 >>,                  \* example.com
    << 101, 120, 97, 109, 112, 108, 101, 46, 99, 111, 109, 58, 56, 48 >>,      \* example.com:80
    << 101, 120, 97, 109, 112, 108, 101, 46, 99, 111, 109, 58, 56, 48, 56, 48 >>,  \* example.com:8080
    << 101, 120, 97, 109, 112, 108, 101, 46, 99, 111, 109, 58, 52, 52, 51 >>,  \* example.com:443
    << 117, 64, 101, 120, 97, 109, 112, 108, 101, 46, 99, 111, 109, 58, 56, 48 >>,  \* u@example.com:80
    << 58, 56, 48 >>,                                                          \* :80
    << 91, 58, 58, 49, 93, 58, 56, 48, 56, 48 >> }                             \* [::1]:8080

Uris == { Uri(None) } \cup { Uri(Some(a)) : a \in Authorities }

\* Bytes a generated Host value is made of: 'a', 0xFF.
HostBytes == {97, 255}

RECURSIVE SeqsUpTo(_, _)
\* All sequences over S of length at most n.
SeqsUpTo(S, n) ==
  IF n = 0 THEN { << >> }
  ELSE SeqsUpTo(S, n - 1)
         \cup { Append(q, x) : q \in { r \in SeqsUpTo(S, n - 1) : Len(r) = n - 1 }, x \in S }

HostValues ==
  SeqsUpTo(HostBytes, MaxHostLen)
    \cup { << 101, 120, 97, 109, 112, 108, 101, 46, 111, 114, 103 >>,       \* example.org
           << 104, 116, 116, 112, 58, 47, 47, 101, 118, 105, 108 >>,        \* http://evil
           << 97, 9, 98 >>,                                                 \* a, tab, b
           << 195, 169 >> }                                                 \* U+00E9 in UTF-8

HeaderMaps ==
  { << >>, << [name |-> "accept", value |-> << 42, 47, 42 >>] >> }
    \cup { << [name |-> HOST, value |-> v] >> : v \in HostValues }
    \cup { << [name |-> "accept", value |-> << 42, 47, 42 >>],
              [name |-> HOST, value |-> << 101, 120, 97, 109, 112, 108, 101, 46, 111, 114, 103 >>],
              [name |-> HOST, value |-> << 97 >>] >> }

Rids == 1..MaxRid

Tasks == 1..NumTasks

\* Every resource table over Rids.
Tables == UNION { [S -> ResourceKind] : S \in SUBSET Rids }

(* ------------------------------ the state ------------------------------ *)

VARIABLES
  listener,        \* None, or the listener being served: its inputs and HttpListenProperties
  connection,      \* None, or the accepted connection: its peer and HttpConnectionProperties
  request,         \* None, or the last request: its inputs, the req_host call and HttpRequestProperties
  resource_table,  \* OpState.resource_table: rid -> kind, for the rids present
  initial_table,   \* the table before any acquisition (history)
  outcome          \* per task: None, or the acquisition it made and its Result

vars == << listener, connection, request, resource_table, initial_table, outcome >>

propsVars == << listener, connection, request >>

tableVars == << resource_table, initial_table, outcome >>

\* No listener yet; the table is not used by the property builders.
Init ==
  /\ listener = None
  /\ connection = None
  /\ request = None
  /\ resource_table = << >>
  /\ initial_table = << >>
  /\ outcome = [t \in Tasks |-> None]

\* Any resource table, no acquisition made yet.
InitTable ==
  /\ listener = None
  /\ connection = None
  /\ request = None
  /\ resource_table \in Tables
  /\ initial_table = resource_table
  /\ outcome = [t \in Tasks |-> None]

(* --------------------------- property builders ------------------------- *)

\* The records are computed once per scope and never changed afterwards: a
\* behaviour follows one listener, one connection accepted on it and one
\* request read from that connection.

\* Once per listener: listen_properties of its stream type and local address.
ServeListener(stream_type, local_address) ==
  /\ listener = None
  /\ listener' = Some([ stream_type |-> stream_type,
                        local_address |-> local_address,
                        properties |-> listen_properties(stream_type, local_address) ])
  /\ connection' = None
  /\ request' = None
  /\ UNCHANGED tableVars

\* Once per accepted connection: connection_properties of the listener's
\* properties and the peer address.
AcceptConnection(peer_address) ==
  /\ IsSome(listener)
  /\ connection = None
  /\ connection' = Some([ peer_address |-> peer_address,
                          properties |-> connection_properties(Unwrap(listener).properties,
                                                               peer_address) ])
  /\ request' = None
  /\ UNCHANGED << listener, tableVars >>

\* Once per request: request_properties of the connection's properties and
\* the request's uri and headers.
HandleRequest(uri, headers) ==
  /\ IsSome(connection)
  /\ request = None
  /\ request' = Some([ uri |-> uri,
                       headers |-> headers,
                       call |-> req_host_call(Unwrap(connection).properties),
                       properties |-> request_properties(Unwrap(connection).properties,
                                                         uri, headers) ])
  /\ UNCHANGED << listener, connection, tableVars >>

(* ------------------------------ acquisitions --------------------------- *)

\* A variant of get_network_stream_for_rid that returns the entry and leaves
\* it in the table.
get_network_stream_for_rid_peek(t, rid) ==
  /\ outcome[t] = None
  /\ LET taken == take_network_stream_resource(resource_table, rid)
     IN /\ resource_table' = resource_table
        /\ outcome' = [outcome EXCEPT ![t] =
                         Some([op |-> "stream", rid |-> rid, result |-> taken.result])]
  /\ UNCHANGED << propsVars, initial_table >>

\* DefaultHttpPropertyExtractor::get_network_stream_for_rid (lines 76-81).
get_network_stream_for_rid(t, rid) ==
  /\ outcome[t] = None
  /\ LET taken == take_network_stream_resource(resource_table, rid)
     IN /\ resource_table' = taken.table
        /\ outcome' = [outcome EXCEPT ![t] =
                         Some([op |-> "stream", rid |-> rid, result |-> taken.result])]
  /\ UNCHANGED << propsVars, initial_table >>

\* DefaultHttpPropertyExtractor::get_network_stream_listener_for_rid (lines 83-91).
get_network_stream_listener_for_rid(t, rid) ==
  /\ outcome[t] = None
  /\ LET taken == take_network_stream_listener_resource(resource_table, rid)
     IN /\ resource_table' = taken.table
        /\ outcome' = [outcome EXCEPT ![t] =
                         Some([op |-> "listener", rid |-> rid, result |-> taken.result])]
  /\ UNCHANGED << propsVars, initial_table >>

(* ---------------------------- specifications --------------------------- *)

\* Whether an address is of the variant the stream type comes with: a
\* NetworkStreamListener and the streams it accepts report a path address
\* when they are Unix sockets and an IP address otherwise.
Agrees(stream_type, addr) == (stream_type = "Unix") <=> (addr.kind = "Unix")

\* The server: the stream type and the addresses come from one listener.
Next ==
  \/ \E st \in NetworkStreamType, a \in Addresses :
       Agrees(st, a) /\ ServeListener(st, a)
  \/ \E a \in Addresses :
       IsSome(listener) /\ Agrees(Unwrap(listener).stream_type, a) /\ AcceptConnection(a)
  \/ \E u \in Uris, h \in HeaderMaps : HandleRequest(u, h)

Spec == Init /\ [][Next]_vars

\* The builders as functions of their parameters: any stream type with any
\* local and peer address.
NextAny ==
  \/ \E st \in NetworkStreamType, a \in Addresses : ServeListener(st, a)
  \/ \E a \in Addresses : AcceptConnection(a)

SpecAny == Init /\ [][NextAny]_vars

NextTable ==
  \/ \E t \in Tasks, rid \in 1..(MaxRid + 1) : get_network_stream_for_rid(t, rid)
  \/ \E t \in Tasks, rid \in 1..(MaxRid + 1) : get_network_stream_listener_for_rid(t, rid)

SpecTable == InitTable /\ [][NextTable]_vars

(* ------------------------ vocabulary of the claims --------------------- *)

RECURSIVE Chars(_)
\* The chars (code points) of a string, decoded from its UTF-8 bytes.
Chars(str) ==
  IF str = << >> THEN << >>
  ELSE IF str[1] < 128 THEN << str[1] >> \o Chars(Tail(str))
  ELSE << (str[1] - 192) * 64 + (str[2] - 128) >> \o Chars(Tail(Tail(str)))

IsPrefix(p, str) == Len(p) <= Len(str) /\ SubSeq(str, 1, Len(p)) = p

RECURSIVE ParseDec(_)
\* The number a string of decimal digits writes.
ParseDec(ds) ==
  IF ds = << >> THEN 0 ELSE ParseDec(SubSeq(ds, 1, Len(ds) - 1)) * 10 + (ds[Len(ds)] - 48)

\* The port an authority text carries: the digits after its last ':'.
AuthorityPort(auth) ==
  LET i == RFind(auth, 58)
      digits == SubSeq(auth, i + 1, Len(auth))
  IN IF i > 0 /\ digits # << >> /\ \A k \in 1..Len(digits) : digits[k] >= 48 /\ digits[k] <= 57
     THEN Some(ParseDec(digits))
     ELSE None

Localhost == << 108, 111, 99, 97, 108, 104, 111, 115, 116 >>

\* The port that is conventional for a transport.
Conventional(stream_type, port) ==
  (stream_type = "Tcp" /\ port = 80) \/ (stream_type = "Tls" /\ port = 443)

HasSchemePrefix(str) ==
  \E st \in NetworkStreamType : IsPrefix(req_scheme_from_stream_type(st), str)

\* The records of the current listener, connection and request.
L == Unwrap(listener)

K == Unwrap(connection)

R == Unwrap(request)

(* --------------------------------- C1 ---------------------------------- *)

\* C1: on a Plain or Encrypted transport, when the URI carries an authority,
\* the result is the host part alone if the authority's own port is the
\* transport's default (80 for Plain, 443 for Encrypted), and the authority
\* text verbatim in every other case.
C1_HostOnlyWhenAuthorityPortIsDefault ==
  (IsSome(request) /\ R.call.addr_type # "Unix" /\ IsSome(R.uri.authority)) =>
    LET auth == Unwrap(R.uri.authority)
    IN R.properties.authority =
         Some(IF \/ (R.call.addr_type = "Tcp" /\ AuthorityPort(auth) = Some(80))
                 \/ (R.call.addr_type = "Tls" /\ AuthorityPort(auth) = Some(443))
              THEN host(auth)
              ELSE auth)

(* --------------------------------- C2 ---------------------------------- *)

\* C2: on a Plain or Encrypted transport the first match wins: with a URI
\* authority the result comes from the authority alone (its host part or its
\* full text) and is the same for every header collection; without one, a
\* Host header gives its value, char for byte; without either the result is
\* None, and None arises in no other case.
C2_PriorityChain ==
  (IsSome(request) /\ R.call.addr_type \in {"Tcp", "Tls"}) =>
    LET auth == R.uri.authority
        hv == get(R.headers, HOST)
        res == R.properties.authority
    IN /\ IsSome(auth) =>
            /\ res \in { Some(host(Unwrap(auth))), Some(Unwrap(auth)) }
            /\ \A h \in HeaderMaps :
                 request_properties(K.properties, R.uri, h).authority = res
       /\ (~IsSome(auth) /\ IsSome(hv)) =>
            (IsSome(res) /\ Chars(Unwrap(res)) = Unwrap(hv))
       /\ (res = None) <=> (~IsSome(auth) /\ ~IsSome(hv))

\* A request whose authority ":80" has an empty host, with a Host header, on
\* a Plain listener at port 80: the result is the empty host.
C2_Witness ==
  /\ IsSome(request)
  /\ R.call = [addr_type |-> "Tcp", port |-> 80]
  /\ R.uri.authority = Some(<< 58, 56, 48 >>)
  /\ IsSome(get(R.headers, HOST))
  /\ R.properties.authority = Some(<< >>)

(* --------------------------------- C3 ---------------------------------- *)

\* C3: on a PathBased transport the authority of every request is None,
\* whatever its URI and headers hold.
C3_UnixAlwaysNone ==
  (IsSome(request) /\ K.properties.stream_type = "Unix") =>
    R.properties.authority = None

\* A request on a Unix listener that carries both a URI authority and a
\* Host header.
C3_Witness ==
  /\ IsSome(request)
  /\ L.stream_type = "Unix"
  /\ L.local_address.kind = "Unix"
  /\ IsSome(R.uri.authority)
  /\ IsSome(get(R.headers, HOST))
  /\ R.properties.authority = None

(* --------------------------------- C4 ---------------------------------- *)

\* C4 as stated: for an IP local address on a Plain or Encrypted listener the
\* fallback host is "localhost" or "localhost:<port>" for a loopback or
\* unspecified IP, and the bare IP or "<ip>:<port>" otherwise, the port being
\* left out exactly when it is the transport's conventional one.
C4_FallbackHostIpColonPort ==
  (IsSome(listener) /\ L.local_address.kind = "Ip" /\ L.stream_type \in {"Tcp", "Tls"}) =>
    LET a == L.local_address
        local == is_loopback(a.ip) \/ is_unspecified(a.ip)
        name == IF local THEN Localhost ELSE IpToString(a.ip)
    IN L.properties.fallback_host =
         IF Conventional(L.stream_type, a.port) THEN name
         ELSE name \o << 58 >> \o DecStr(a.port)

\* C4 amended: as C4, but the form with a port of an IPv6 address that is
\* neither loopback nor unspecified is "[<ip>]:<port>", and
\* "[<ip>%<scope>]:<port>" when the address has a scope id.
C4_FallbackHost ==
  (IsSome(listener) /\ L.local_address.kind = "Ip" /\ L.stream_type \in {"Tcp", "Tls"}) =>
    LET a == L.local_address
        local == is_loopback(a.ip) \/ is_unspecified(a.ip)
        port == << 58 >> \o DecStr(a.port)
        scope == IF a.scope_id = 0 THEN << >> ELSE << 37 >> \o DecStr(a.scope_id)
    IN L.properties.fallback_host =
         CASE local /\ Conventional(L.stream_type, a.port) -> Localhost
           [] local /\ ~Conventional(L.stream_type, a.port) -> Localhost \o port
           [] ~local /\ Conventional(L.stream_type, a.port) -> IpToString(a.ip)
           [] ~local /\ ~Conventional(L.stream_type, a.port) /\ a.ip.v = 4 ->
                IpToString(a.ip) \o port
           [] ~local /\ ~Conventional(L.stream_type, a.port) /\ a.ip.v = 6 ->
                << 91 >> \o IpToString(a.ip) \o scope \o << 93 >> \o port

\* An Encrypted listener on [2001:db8::1]:8443.
C4_Witness ==
  /\ IsSome(listener)
  /\ L.stream_type = "Tls"
  /\ L.local_address = IpAddress(V6(<< 8193, 3512, 0, 0, 0, 0, 0, 1 >>), 8443, 0)
  /\ L.properties.fallback_host =
       << 91, 50, 48, 48, 49, 58, 100, 98, 56, 58, 58, 49, 93, 58, 56, 52, 52, 51 >>

(* --------------------------------- C5 ---------------------------------- *)

\* The result a Host header value must give: present; for a value that is
\* not text (HeaderValue::to_str fails) a string with as many chars as the
\* value has bytes, the i-th char having the i-th byte's value; for a value
\* that is text, the value unchanged.
LossyHostValue(hv, res) ==
  /\ IsSome(res)
  /\ ~IsSome(to_str(hv)) =>
       /\ Len(Chars(Unwrap(res))) = Len(hv)
       /\ \A i \in 1..Len(hv) : Chars(Unwrap(res))[i] = hv[i]
  /\ IsSome(to_str(hv)) => Unwrap(res) = hv

\* C5 as stated: without a URI authority, a Host header always gives a
\* present result, char for byte when the value is not text and unchanged
\* when it is, on whatever transport the request arrived.
C5_LossyHostHeaderAnyTransport ==
  (IsSome(request) /\ ~IsSome(R.uri.authority) /\ IsSome(get(R.headers, HOST))) =>
    LossyHostValue(Unwrap(get(R.headers, HOST)), R.properties.authority)

\* C5 amended: on a Plain or Encrypted transport, without a URI authority, a
\* Host header always gives a present result, char for byte when the value
\* is not text (anything but visible ASCII and tab, well-formed UTF-8 of
\* several bytes included) and unchanged when it is.
C5_LossyHostHeader ==
  (IsSome(request) /\ R.call.addr_type \in {"Tcp", "Tls"} /\ ~IsSome(R.uri.authority)
     /\ IsSome(get(R.headers, HOST))) =>
    LossyHostValue(Unwrap(get(R.headers, HOST)), R.properties.authority)

\* A Host value of the one byte 0xFF: the result is the char U+00FF, which
\* the String holds in two bytes.
C5_Witness ==
  /\ IsSome(request)
  /\ R.call.addr_type = "Tcp"
  /\ ~IsSome(R.uri.authority)
  /\ get(R.headers, HOST) = Some(<< 255 >>)
  /\ R.properties.authority = Some(<< 195, 191 >>)

(* --------------------------------- C6 ---------------------------------- *)

\* The handle task t acquired, if its acquisition succeeded.
Acquired(t) == IsSome(outcome[t]) /\ Unwrap(outcome[t]).result.ok

\* Whether rid named an entry of the kind that op takes before any
\* acquisition was made.
Takeable(op, rid) == rid \in DOMAIN initial_table /\ initial_table[rid] = op

\* C6: an acquisition succeeds only for an identifier that named an entry of
\* the right kind, the entry is gone from the table afterwards, no two
\* acquisitions of one identifier both succeed, and of the acquisitions of
\* an identifier that named an entry of the right kind exactly one succeeds
\* and every other gets the not-found error; an absent identifier or one of
\* another kind gets the not-found error.
C6_SingleAcquisition ==
  /\ \A t \in Tasks : IsSome(outcome[t]) =>
       LET o == Unwrap(outcome[t])
       IN /\ ~Takeable(o.op, o.rid) => o.result = [ok |-> FALSE, error |-> "NotFound"]
          /\ o.result.ok =>
               /\ o.result.handle = [rid |-> o.rid, kind |-> o.op]
               /\ o.rid \notin DOMAIN resource_table
          /\ ~o.result.ok => o.result.error = "NotFound"
  /\ \A rid \in 1..(MaxRid + 1) :
       LET holders == { t \in Tasks : Acquired(t) /\ Unwrap(outcome[t]).rid = rid }
           asked(op) == \E t \in Tasks :
                          /\ IsSome(outcome[t])
                          /\ Unwrap(outcome[t]).rid = rid
                          /\ Unwrap(outcome[t]).op = op
       IN /\ Cardinality(holders) <= 1
          /\ \A op \in {"stream", "listener"} :
               (Takeable(op, rid) /\ asked(op)) => Cardinality(holders) = 1

\* Two tasks have asked for the same stream: one holds it, the other has the
\* not-found error.
C6_Witness ==
  \E t1, t2 \in Tasks :
    /\ t1 # t2
    /\ Acquired(t1)
    /\ Unwrap(outcome[t1]).op = "stream"
    /\ IsSome(outcome[t2])
    /\ Unwrap(outcome[t2]).op = "stream"
    /\ Unwrap(outcome[t2]).rid = Unwrap(outcome[t1]).rid
    /\ Unwrap(outcome[t2]).result = [ok |-> FALSE, error |-> "NotFound"]

(* --------------------------------- C7 ---------------------------------- *)

\* C7 as stated: in every listen and connection record, for any transport
\* kind and any addresses, PathBased implies that local_port and peer_port
\* are absent, and local_port is absent only for PathBased.
C7_PortsFollowTransportKind ==
  /\ IsSome(listener) =>
       /\ L.properties.stream_type = "Unix" => L.properties.local_port = None
       /\ L.properties.local_port = None => L.properties.stream_type = "Unix"
  /\ IsSome(connection) =>
       /\ K.properties.stream_type = "Unix" =>
            (K.properties.local_port = None /\ K.properties.peer_port = None)
       /\ K.properties.local_port = None => K.properties.stream_type = "Unix"

\* C7 amended: local_port is absent exactly when the listener's local
\* address is a path address and peer_port exactly when the peer address is
\* one, whatever the transport kind; so the stated invariant holds whenever
\* the addresses are of the variant the transport kind goes with.
C7_PortsFollowAddressVariant ==
  /\ IsSome(listener) =>
       /\ (L.properties.local_port = None) <=> (L.local_address.kind = "Unix")
       /\ L.local_address.kind = "Ip" =>
            L.properties.local_port = Some(L.local_address.port)
       /\ Agrees(L.stream_type, L.local_address) =>
            ((L.properties.local_port = None) <=> (L.properties.stream_type = "Unix"))
  /\ IsSome(connection) =>
       /\ (K.properties.local_port = None) <=> (L.local_address.kind = "Unix")
       /\ (K.properties.peer_port = None) <=> (K.peer_address.kind = "Unix")
       /\ (Agrees(L.stream_type, L.local_address) /\ Agrees(L.stream_type, K.peer_address)) =>
            /\ K.properties.stream_type = "Unix" =>
                 (K.properties.local_port = None /\ K.properties.peer_port = None)
            /\ K.properties.local_port = None => K.properties.stream_type = "Unix"

\* A connection between path addresses on a Unix listener: no ports.
C7_Witness ==
  /\ IsSome(connection)
  /\ L.stream_type = "Unix"
  /\ L.local_address.kind = "Unix"
  /\ K.peer_address.kind = "Unix"
  /\ K.properties.local_port = None
  /\ K.properties.peer_port = None

(* --------------------------------- C8 ---------------------------------- *)

\* C8: the authority of a request, when present, never begins with a scheme
\* ("http://", "https://", "http+unix://"), whatever the URI and the headers.
C8_NoSchemePrefix ==
  (IsSome(request) /\ IsSome(R.properties.authority)) =>
    ~HasSchemePrefix(Unwrap(R.properties.authority))

(* --------------------------------- C9 ---------------------------------- *)

\* C9: a connection's local_port and stream_type are its listener's, whatever
\* the peer address is, and the port request_properties hands to req_host is
\* the listener's local port (0 when the listener has none).
C9_ConnectionReusesListener ==
  /\ IsSome(connection) =>
       /\ K.properties.local_port = L.properties.local_port
       /\ K.properties.stream_type = L.properties.stream_type
  /\ IsSome(request) =>
       /\ R.call.addr_type = L.properties.stream_type
       /\ IsSome(L.properties.local_port) => R.call.port = Unwrap(L.properties.local_port)
       /\ L.local_address.kind = "Ip" => R.call.port = L.local_address.port
       /\ ~IsSome(L.properties.local_port) => R.call.port = 0

\* A request on a listener at port 8443 from a peer at port 80.
C9_Witness ==
  /\ IsSome(request)
  /\ L.local_address.kind = "Ip"
  /\ L.local_address.port = 8443
  /\ K.peer_address.kind = "Ip"
  /\ K.peer_address.port = 80
  /\ R.call.port = 8443

(* --------------------------------- C10 --------------------------------- *)

\* C10: for an IP peer, peer_address is the bare IP text (never "localhost",
\* no port, no brackets) and peer_port is the peer's port, the same for
\* every transport kind and every listener port.
C10_PeerNeverLocalhost ==
  (IsSome(connection) /\ K.peer_address.kind = "Ip") =>
    /\ K.properties.peer_address = IpToString(K.peer_address.ip)
    /\ ~IsPrefix(Localhost, K.properties.peer_address)
    /\ K.properties.peer_port = Some(K.peer_address.port)
    /\ \A st \in NetworkStreamType :
         connection_properties([L.properties EXCEPT !.stream_type = st],
                               K.peer_address).peer_address
           = K.properties.peer_address

\* A loopback peer at the conventional port of a Plain listener keeps its IP.
C10_Witness ==
  /\ IsSome(connection)
  /\ L.stream_type = "Tcp"
  /\ K.peer_address = IpAddress(V4(127, 0, 0, 1), 80, 0)
  /\ K.properties.peer_address = << 49, 50, 55, 46, 48, 46, 48, 46, 49 >>
  /\ L.properties.fallback_host = Localhost

====
